---- MODULE Spec2Model ----
(***************************************************************************)
(* Coherent Point Drift (probreg/cpd.py): the EM registration driver, the  *)
(* rigid, affine and non-rigid maximization steps, the expectation step    *)
(* and the registrar objects (constructor, set_source, registration_cpd).  *)
(*                                                                         *)
(* Numbers.  numpy's float64 is modelled by a small saturating fixed-point *)
(* float: a finite value is an integer count of 1/FScale units with        *)
(* magnitude at most FMax, beyond which it overflows to Inf or NInf, and   *)
(* NaN is the result of 0/0, inf-inf, 0*inf, log and sqrt of negatives.    *)
(* Operations truncate towards zero.  Comparisons with NaN are false.      *)
(***************************************************************************)
EXTENDS Integers, Sequences, FiniteSets, TLC

FScale == 1000
FMax == 2000 * FScale
Inf == FMax + 1
NInf == -(FMax + 1)
NaN == FMax + 2

One == FScale
Two == 2 * FScale
Half == FScale \div 2

\* Python evaluates an expression once and binds the value to a name or a
\* parameter: Let(v, Rest) is Rest applied to the value of v
Let(v, Rest(_)) == CHOOSE r \in {Rest(x) : x \in {v}} : TRUE

IsNaN(x) == x = NaN
IsFin(x) == x >= -FMax /\ x <= FMax
IAbs(x) == IF x < 0 THEN -x ELSE x
Sgn(x) == IF x < 0 THEN -1 ELSE IF x > 0 THEN 1 ELSE 0
Sat(x) == IF x > FMax THEN Inf ELSE IF x < -FMax THEN NInf ELSE x

\* int -> float (e.g. target.shape[0] used in float arithmetic)
FromInt(n) ==
    Let(n, LAMBDA n_ :
    Sat(n_ * FScale))

FNeg(x) ==
    Let(x, LAMBDA x_ :
    IF IsNaN(x_) THEN NaN ELSE -x_)

FAbs(x) ==
    Let(x, LAMBDA x_ :
    IF IsNaN(x_) THEN NaN ELSE IAbs(x_))

FAdd(a, b) ==
    Let(a, LAMBDA a_ : Let(b, LAMBDA b_ :
    IF IsNaN(a_) \/ IsNaN(b_) THEN NaN
    ELSE IF a_ = Inf THEN (IF b_ = NInf THEN NaN ELSE Inf)
    ELSE IF a_ = NInf THEN (IF b_ = Inf THEN NaN ELSE NInf)
    ELSE IF b_ = Inf \/ b_ = NInf THEN b_
    ELSE Sat(a_ + b_)))

FSub(a, b) == FAdd(a, FNeg(b))

FMul(a, b) ==
    Let(a, LAMBDA a_ : Let(b, LAMBDA b_ :
    IF IsNaN(a_) \/ IsNaN(b_) THEN NaN
    ELSE IF ~IsFin(a_) \/ ~IsFin(b_)
         THEN (IF a_ = 0 \/ b_ = 0 THEN NaN
               ELSE IF Sgn(a_) * Sgn(b_) > 0 THEN Inf ELSE NInf)
    ELSE LET x == IAbs(a_)
             y == IAbs(b_)
             hi == x \div FScale
             lo == x % FScale
             s == Sgn(a_) * Sgn(b_)
         IN IF hi > 0 /\ y > (2 * FMax) \div hi
            THEN (IF s > 0 THEN Inf ELSE NInf)
            ELSE Sat(s * (hi * y + (lo * y) \div FScale))))

\* numpy true division: x/0 is +-inf, 0/0 is nan (a warning, no exception)
FDiv(a, b) ==
    Let(a, LAMBDA a_ : Let(b, LAMBDA b_ :
    IF IsNaN(a_) \/ IsNaN(b_) THEN NaN
    ELSE IF ~IsFin(a_)
         THEN (IF ~IsFin(b_) THEN NaN
               ELSE IF (b_ >= 0) = (a_ > 0) THEN Inf ELSE NInf)
    ELSE IF ~IsFin(b_) THEN 0
    ELSE IF b_ = 0
         THEN (IF a_ = 0 THEN NaN ELSE IF a_ > 0 THEN Inf ELSE NInf)
    ELSE Sat(Sgn(a_) * Sgn(b_) * ((IAbs(a_) * FScale) \div IAbs(b_)))))

FLt(a, b) ==
    Let(a, LAMBDA a_ : Let(b, LAMBDA b_ :
    ~IsNaN(a_) /\ ~IsNaN(b_) /\ a_ < b_))

RECURSIVE ISqrtIter(_, _, _)
ISqrtIter(n, lo, hi) ==
    Let(n, LAMBDA n_ : Let(lo, LAMBDA lo_ : Let(hi, LAMBDA hi_ :
    IF lo_ >= hi_ THEN lo_
    ELSE LET mid == (lo_ + hi_ + 1) \div 2
         IN IF mid * mid <= n_ THEN ISqrtIter(n_, mid, hi_)
            ELSE ISqrtIter(n_, lo_, mid - 1))))

\* np.sqrt
FSqrt(x) ==
    Let(x, LAMBDA x_ :
    IF IsNaN(x_) \/ x_ < 0 THEN NaN
    ELSE IF x_ = Inf THEN Inf
    ELSE ISqrtIter(x_ * FScale, 0, 46340))

\* exp(-k) for k = 0..7 in units of 1/FScale; exp(-8) and below underflow to 0
ExpNegInt == <<1000, 368, 135, 50, 18, 7, 2, 1>>

\* exp(-f/FScale) for 0 <= f < FScale: 1 - f + f^2/2 - f^3/6 + f^4/24 - f^5/120
ExpNegFrac(f) ==
    Let(f, LAMBDA f_ :
    LET t1 == f_
        t2 == (t1 * f_) \div (2 * FScale)
        t3 == (t2 * f_) \div (3 * FScale)
        t4 == (t3 * f_) \div (4 * FScale)
        t5 == (t4 * f_) \div (5 * FScale)
    IN FScale - t1 + t2 - t3 + t4 - t5)

\* np.exp
FExp(x) ==
    Let(x, LAMBDA x_ :
    IF IsNaN(x_) THEN NaN
    ELSE IF x_ = Inf THEN Inf
    ELSE IF x_ = NInf THEN 0
    ELSE LET y == IAbs(x_)
             k == y \div FScale
             f == y % FScale
             neg == IF k >= Len(ExpNegInt) THEN 0
                    ELSE (ExpNegInt[k + 1] * ExpNegFrac(f)) \div FScale
         IN IF x_ <= 0 THEN neg ELSE FDiv(One, neg))

Ln2 == 693

\* ln(m/FScale) for FScale <= m < 2*FScale, by the atanh series
LnMantissa(m) ==
    Let(m, LAMBDA m_ :
    LET z == ((m_ - FScale) * FScale) \div (m_ + FScale)
        z2 == (z * z) \div FScale
        z3 == (z * z2) \div FScale
        z5 == (z3 * z2) \div FScale
        z7 == (z5 * z2) \div FScale
    IN 2 * (z + z3 \div 3 + z5 \div 5 + z7 \div 7))

RECURSIVE LnPos(_)
LnPos(x) ==
    Let(x, LAMBDA x_ :
    IF x_ >= 2 * FScale THEN Ln2 + LnPos(x_ \div 2)
    ELSE IF x_ < FScale THEN LnPos(2 * x_) - Ln2
    ELSE LnMantissa(x_))

\* np.log: log(0) = -inf and log(x < 0) = nan (warnings, no exception)
FLog(x) ==
    Let(x, LAMBDA x_ :
    IF IsNaN(x_) \/ x_ < 0 THEN NaN
    ELSE IF x_ = 0 THEN NInf
    ELSE IF x_ = Inf THEN Inf
    ELSE LnPos(x_))

Pi == 3142

\* x ** (n * 0.5)
RECURSIVE FPowHalf(_, _)
FPowHalf(x, n) ==
    Let(x, LAMBDA x_ : Let(n, LAMBDA n_ :
    IF n_ = 0 THEN One
    ELSE IF n_ = 1 THEN FSqrt(x_)
    ELSE FMul(x_, FPowHalf(x_, n_ - 2))))

(***************************************************************************)
(* numpy arrays.  A vector is a sequence of floats, a matrix a sequence of *)
(* rows.  A point set handed to the registrar is [ndim, pts]: ndim is the  *)
(* array's number of axes and pts its rows (a 1-axis array of length n has *)
(* n rows of one number; a 3-axis array has shape (n, d, 1)).              *)
(***************************************************************************)
NoArray == [ndim |-> 0, pts |-> <<>>]
Array2(pts) == [ndim |-> 2, pts |-> pts]

NRows(m) == Len(m)
NCols(m) == Len(m[1])

RECURSIVE FSumTo(_, _)
FSumTo(v, n) == IF n = 0 THEN 0 ELSE FAdd(FSumTo(v, n - 1), v[n])

\* np.sum of a vector
FSum(v) ==
    Let(v, LAMBDA v_ :
    FSumTo(v_, Len(v_)))

Zeros(n) == [i \in 1..n |-> 0]
Identity(n) == [i \in 1..n |-> [j \in 1..n |-> IF i = j THEN One ELSE 0]]
Transpose(m) ==
    Let(m, LAMBDA m_ :
    [j \in 1..NCols(m_) |-> [i \in 1..NRows(m_) |-> m_[i][j]]])
Column(m, j) ==
    Let(m, LAMBDA m_ : Let(j, LAMBDA j_ :
    [i \in 1..NRows(m_) |-> m_[i][j_]]))

\* np.dot of two vectors, of two matrices, of a matrix and a vector
Dot(u, v) ==
    Let(u, LAMBDA u_ : Let(v, LAMBDA v_ :
    FSum([i \in 1..Len(u_) |-> FMul(u_[i], v_[i])])))
MatMul(a, b) ==
    Let(a, LAMBDA a_ : Let(b, LAMBDA b_ :
    [i \in 1..NRows(a_) |-> [j \in 1..NCols(b_) |-> Dot(a_[i], Column(b_, j))]]))
MatVec(a, v) ==
    Let(a, LAMBDA a_ : Let(v, LAMBDA v_ :
    [i \in 1..NRows(a_) |-> Dot(a_[i], v_)]))

\* np.outer, np.trace, np.diag of a vector
Outer(u, v) ==
    Let(u, LAMBDA u_ : Let(v, LAMBDA v_ :
    [i \in 1..Len(u_) |-> [j \in 1..Len(v_) |-> FMul(u_[i], v_[j])]]))
Trace(m) ==
    Let(m, LAMBDA m_ :
    FSum([i \in 1..(IF NRows(m_) < NCols(m_) THEN NRows(m_) ELSE NCols(m_))
              |-> m_[i][i]]))
Diag(v) ==
    Let(v, LAMBDA v_ :
    [i \in 1..Len(v_) |-> [j \in 1..Len(v_) |-> IF i = j THEN v_[i] ELSE 0]])

MatSub(a, b) ==
    Let(a, LAMBDA a_ : Let(b, LAMBDA b_ :
    [i \in 1..NRows(a_) |-> [j \in 1..NCols(a_) |-> FSub(a_[i][j], b_[i][j])]]))
MatAdd(a, b) ==
    Let(a, LAMBDA a_ : Let(b, LAMBDA b_ :
    [i \in 1..NRows(a_) |-> [j \in 1..NCols(a_) |-> FAdd(a_[i][j], b_[i][j])]]))
MatScale(s, a) ==
    Let(s, LAMBDA s_ : Let(a, LAMBDA a_ :
    [i \in 1..NRows(a_) |-> [j \in 1..NCols(a_) |-> FMul(s_, a_[i][j])]]))
VecSub(u, v) ==
    Let(u, LAMBDA u_ : Let(v, LAMBDA v_ :
    [i \in 1..Len(u_) |-> FSub(u_[i], v_[i])]))
VecAdd(u, v) ==
    Let(u, LAMBDA u_ : Let(v, LAMBDA v_ :
    [i \in 1..Len(u_) |-> FAdd(u_[i], v_[i])]))
VecScale(s, v) ==
    Let(s, LAMBDA s_ : Let(v, LAMBDA v_ :
    [i \in 1..Len(v_) |-> FMul(s_, v_[i])]))
VecDiv(v, s) ==
    Let(v, LAMBDA v_ : Let(s, LAMBDA s_ :
    [i \in 1..Len(v_) |-> FDiv(v_[i], s_)]))

\* m - v and m.T * v, the vector broadcast along the last axis
RowsMinus(m, v) ==
    Let(m, LAMBDA m_ : Let(v, LAMBDA v_ :
    [i \in 1..NRows(m_) |-> VecSub(m_[i], v_)]))
TransposeTimes(m, v) ==
    Let(m, LAMBDA m_ : Let(v, LAMBDA v_ :
    [j \in 1..NCols(m_) |-> [i \in 1..NRows(m_) |-> FMul(m_[i][j], v_[i])]]))

\* np.sum(m, axis=0)
ColSums(m) ==
    Let(m, LAMBDA m_ :
    [j \in 1..NCols(m_) |-> FSum(Column(m_, j))])

\* numpy broadcasting of two 2-axis operands: each axis equal, or one of them 1
Broadcastable(a, b) ==
    /\ NRows(a) = NRows(b) \/ NRows(a) = 1 \/ NRows(b) = 1
    /\ NCols(a) = NCols(b) \/ NCols(a) = 1 \/ NCols(b) = 1
IMax(x, y) == IF x > y THEN x ELSE y
BAt(a, i, j) ==
    a[IF NRows(a) = 1 THEN 1 ELSE i][IF NCols(a) = 1 THEN 1 ELSE j]
BMul(a, b) ==
    Let(a, LAMBDA a_ : Let(b, LAMBDA b_ :
    [i \in 1..IMax(NRows(a_), NRows(b_)) |->
        [j \in 1..IMax(NCols(a_), NCols(b_)) |-> FMul(BAt(a_, i, j), BAt(b_, i, j))]]))
BSub(a, b) ==
    Let(a, LAMBDA a_ : Let(b, LAMBDA b_ :
    [i \in 1..IMax(NRows(a_), NRows(b_)) |->
        [j \in 1..IMax(NCols(a_), NCols(b_)) |-> FSub(BAt(a_, i, j), BAt(b_, i, j))]]))

\* np.linalg.det, by cofactors, for up to three rows
Det(m) ==
    Let(m, LAMBDA m_ :
    IF NRows(m_) = 1 THEN m_[1][1]
    ELSE IF NRows(m_) = 2
         THEN FSub(FMul(m_[1][1], m_[2][2]), FMul(m_[1][2], m_[2][1]))
    ELSE FAdd(FSub(FMul(m_[1][1], FSub(FMul(m_[2][2], m_[3][3]), FMul(m_[2][3], m_[3][2]))),
                   FMul(m_[1][2], FSub(FMul(m_[2][1], m_[3][3]), FMul(m_[2][3], m_[3][1])))),
              FMul(m_[1][3], FSub(FMul(m_[2][1], m_[3][2]), FMul(m_[2][2], m_[3][1])))))

\* np.linalg.svd of a 1x1 matrix: a = u * |a| * vh; a non-finite entry raises
Svd(a) ==
    Let(a, LAMBDA a_ :
    IF ~IsFin(a_[1][1]) THEN [err |-> "LinAlgError", u |-> <<>>, vh |-> <<>>]
    ELSE [err |-> "", u |-> <<<<IF a_[1][1] < 0 THEN -One ELSE One>>>>,
          vh |-> <<<<One>>>>])

\* np.linalg.solve(m, rhs) for a 1x1 m: an exactly singular m raises
Solve(m, rhs) ==
    Let(m, LAMBDA m_ : Let(rhs, LAMBDA rhs_ :
    IF m_[1][1] = 0 THEN [err |-> "LinAlgError", x |-> <<>>]
    ELSE [err |-> "",
          x |-> <<[j \in 1..NCols(rhs_) |-> FDiv(rhs_[1][j], m_[1][1])]>>]))

(***************************************************************************)
(* Collaborators of cpd.py: the kernel transform, math_utils and the       *)
(* transformation classes.                                                 *)
(***************************************************************************)
SqDist(x, y) ==
    Let(x, LAMBDA x_ : Let(y, LAMBDA y_ :
    FSum([d \in 1..Len(x_) |-> FMul(FSub(x_[d], y_[d]), FSub(x_[d], y_[d]))])))

\* gt.GaussTransform(reference, h).compute(query, weights): for each query
\* point the sum over the reference points of weight * exp(-|q - r|^2 / h^2)
GaussTransformCompute(reference, h, query, weights) ==
    Let(reference, LAMBDA reference_ : Let(h, LAMBDA h_ : Let(query, LAMBDA query_ : Let(weights, LAMBDA weights_ :
    [j \in 1..Len(query_) |->
        FSum([i \in 1..Len(reference_) |->
                FMul(weights_[i],
                     FExp(FNeg(FDiv(SqDist(query_[j], reference_[i]), FMul(h_, h_)))))])]))))

\* mu.msn_all_combination(a, b): the sum of all pairwise squared distances
\* divided by D * N * M
msn_all_combination(a, b) ==
    FDiv(FSum([i \in 1..Len(a.pts) |->
                 FSum([j \in 1..Len(b.pts) |-> SqDist(a.pts[i], b.pts[j])])]),
         FromInt(Len(a.pts[1]) * Len(a.pts) * Len(b.pts)))

\* mu.gaussian_kernel(x, beta): G[i][j] = exp(-|x_i - x_j|^2 / (2 beta^2))
gaussian_kernel(x, beta) ==
    [i \in 1..Len(x.pts) |-> [j \in 1..Len(x.pts) |->
        FExp(FNeg(FDiv(SqDist(x.pts[i], x.pts[j]), FMul(Two, FMul(beta, beta)))))]]

\* tf.RigidTransformation(rot, t, scale=1.0), tf.AffineTransformation(b, t),
\* tf.NonRigidTransformation(g, w); waxes is the number of axes of w (the
\* initializer's np.zeros(n) has one: n rows of one number)
RigidTransformation(rot, t, scale) ==
    [kind |-> "rigid", mat |-> rot, t |-> t, scale |-> scale, w |-> <<>>,
     waxes |-> 0]
AffineTransformation(b, t) ==
    [kind |-> "affine", mat |-> b, t |-> t, scale |-> One, w |-> <<>>,
     waxes |-> 0]
NonRigidTransformation(g, w, waxes) ==
    [kind |-> "nonrigid", mat |-> g, t |-> <<>>, scale |-> One, w |-> w,
     waxes |-> waxes]
NoTransformation ==
    [kind |-> "none", mat |-> <<>>, t |-> <<>>, scale |-> One, w |-> <<>>,
     waxes |-> 0]

\* transformation.transform(points): the map applied to every row; the array
\* keeps its number of axes.  A non-rigid w is the initializer's zeros(N) (one
\* axis: no displacement) or the maximization step's N x D matrix.
TransformRows(tr, pts) ==
    IF tr.kind = "rigid"
    THEN [i \in 1..Len(pts) |-> VecAdd(VecScale(tr.scale, MatVec(tr.mat, pts[i])), tr.t)]
    ELSE IF tr.kind = "affine"
    THEN [i \in 1..Len(pts) |-> VecAdd(MatVec(tr.mat, pts[i]), tr.t)]
    ELSE IF tr.waxes = 1 THEN pts
    ELSE MatAdd(pts, MatMul(tr.mat, tr.w))
Transform(tr, points) == [ndim |-> points.ndim, pts |-> TransformRows(tr, points.pts)]

(***************************************************************************)
(* cpd.py                                                                  *)
(***************************************************************************)
EstepResult(pt1, p1, px, n_p) == [pt1 |-> pt1, p1 |-> p1, px |-> px, n_p |-> n_p]
NoEstepResult == EstepResult(<<>>, <<>>, <<>>, 0)
MstepResult(transformation, sigma2, q) ==
    [transformation |-> transformation, sigma2 |-> sigma2, q |-> q]
NoMstepResult == MstepResult(NoTransformation, 0, 0)

\* np.finfo(np.float32).eps: the smallest step of the float model
Float32Eps == 1

\* CoherentPointDrift.expectation_step, after its assertion
expectation_step(t_source, target, sigma2, w) ==
    Let(NCols(t_source), LAMBDA ndim :
    Let(FSqrt(FMul(Two, sigma2)), LAMBDA h :
    Let(FPowHalf(FMul(FMul(Two, Pi), sigma2), ndim), LAMBDA c0 :
    Let(FMul(c0, FDiv(FMul(FDiv(w, FSub(One, w)), FromInt(NRows(t_source))),
                      FromInt(NRows(target)))), LAMBDA c :
    Let(GaussTransformCompute(t_source, h, target,
                              [i \in 1..NRows(t_source) |-> One]), LAMBDA kt0 :
    Let([m \in 1..Len(kt0) |-> IF kt0[m] = 0 THEN Float32Eps ELSE kt0[m]],
        LAMBDA kt1 :
    Let([m \in 1..Len(kt1) |-> FDiv(One, FAdd(kt1[m], c))], LAMBDA a :
    Let([m \in 1..Len(a) |-> FSub(One, FMul(c, a[m]))], LAMBDA pt1 :
    Let(GaussTransformCompute(target, h, t_source, a), LAMBDA p1 :
    Let(Transpose([d \in 1..ndim |->
            GaussTransformCompute(target, h, t_source,
                [m \in 1..NRows(target) |-> FMul(a[m], target[m][d])])]),
        LAMBDA px :
    EstepResult(pt1, p1, px, FSum(p1))))))))))))

\* faulty variant: the rotation without the reflection fix (c = np.ones(ndim))
RigidRotation_uncorrected(u, vh) == MatMul(u, vh)

\* lines 98-100: the rotation from the SVD factors, with the reflection fix
RigidRotation(u, vh) ==
    Let(NRows(u), LAMBDA ndim :
    Let([j \in 1..ndim |-> IF j = ndim THEN Det(MatMul(u, vh)) ELSE One], LAMBDA c :
    Let([i \in 1..ndim |-> [j \in 1..ndim |-> FMul(u[i][j], c[j])]], LAMBDA uc :
    MatMul(uc, vh))))

\* the reductions shared by the rigid and the affine maximization step
MstepMoments(source, target, estep_res) ==
    Let(VecDiv(ColSums(estep_res.px), estep_res.n_p), LAMBDA mu_x :
    Let(VecDiv(MatVec(Transpose(source), estep_res.p1), estep_res.n_p), LAMBDA mu_y :
    Let(RowsMinus(target, mu_x), LAMBDA target_hat :
    Let(RowsMinus(source, mu_y), LAMBDA source_hat :
    Let(Transpose(source_hat), LAMBDA source_hat_t :
    Let(MatMul(Transpose(estep_res.px), source_hat), LAMBDA pxy :
    [mu_x |-> mu_x, mu_y |-> mu_y,
     target_hat |-> target_hat, source_hat |-> source_hat,
     a |-> MatSub(pxy, Outer(mu_x, MatVec(source_hat_t, estep_res.p1)))]))))))

\* the trace of m.T * weights . m (lines 102, 105, 133, 177, 179)
WeightedTrace(m, weights) == Trace(MatMul(TransposeTimes(m, weights), m))

\* q = ... with q += ndim * n_p * 0.5 * np.log(sigma2) (lines 107-108, 140-141)
Objective(numerator, sigma2, ndim, n_p) ==
    Let(numerator, LAMBDA numerator_ : Let(sigma2, LAMBDA sigma2_ : Let(ndim, LAMBDA ndim_ : Let(n_p, LAMBDA n_p_ :
    FAdd(FDiv(numerator_, FMul(Two, sigma2_)),
         FMul(FMul(FMul(FromInt(ndim_), n_p_), Half), FLog(sigma2_)))))))

\* RigidCPD._maximization_step: [err, res]
RigidCPD_maximization_step(source, target, estep_res, sigma2_p) ==
    Let(MstepMoments(source, target, estep_res), LAMBDA mo :
    Let(Svd(mo.a), LAMBDA usv :
    IF usv.err # "" THEN [err |-> usv.err, res |-> NoMstepResult] ELSE
    Let(RigidRotation(usv.u, usv.vh), LAMBDA rot :
    Let(Trace(MatMul(Transpose(mo.a), rot)), LAMBDA tr_atr :
    Let(WeightedTrace(mo.source_hat, estep_res.p1), LAMBDA tr_yp1y :
    Let(FDiv(tr_atr, tr_yp1y), LAMBDA scale :
    Let(VecSub(mo.mu_x, VecScale(scale, MatVec(rot, mo.mu_y))), LAMBDA t :
    Let(WeightedTrace(mo.target_hat, estep_res.pt1), LAMBDA tr_xp1x :
    Let(FDiv(FSub(tr_xp1x, FMul(scale, tr_atr)),
             FMul(estep_res.n_p, FromInt(NCols(source)))), LAMBDA sigma2 :
    Let(Objective(FAdd(FSub(tr_xp1x, FMul(FMul(Two, scale), tr_atr)),
                       FMul(FMul(scale, scale), tr_yp1y)),
                  sigma2, NCols(source), estep_res.n_p), LAMBDA q :
    [err |-> "",
     res |-> MstepResult(RigidTransformation(rot, t, scale), sigma2, q)]))))))))))

\* AffineCPD._maximization_step: [err, res]
AffineCPD_maximization_step(source, target, estep_res, sigma2_p) ==
    Let(MstepMoments(source, target, estep_res), LAMBDA mo :
    Let(MatMul(TransposeTimes(mo.source_hat, estep_res.p1), mo.source_hat),
        LAMBDA yp1y :
    Let(Solve(Transpose(yp1y), Transpose(mo.a)), LAMBDA sol :
    IF sol.err # "" THEN [err |-> sol.err, res |-> NoMstepResult] ELSE
    Let(Transpose(sol.x), LAMBDA b :
    Let(VecSub(mo.mu_x, MatVec(b, mo.mu_y)), LAMBDA t :
    Let(WeightedTrace(mo.target_hat, estep_res.pt1), LAMBDA tr_xp1x :
    Let(Trace(MatMul(mo.a, Transpose(b))), LAMBDA tr_xpyb :
    Let(FDiv(FSub(tr_xp1x, tr_xpyb),
             FMul(estep_res.n_p, FromInt(NCols(source)))), LAMBDA sigma2 :
    Let(Trace(MatMul(mo.a, Transpose(b))), LAMBDA tr_ab :
    Let(Objective(FAdd(FSub(tr_xp1x, FMul(Two, tr_ab)), tr_xpyb),
                  sigma2, NCols(source), estep_res.n_p), LAMBDA q :
    [err |-> "",
     res |-> MstepResult(AffineTransformation(b, t), sigma2, q)]))))))))))

\* NonRigidCPD._maximization_step, lines 172-180: [err, w, sigma2].
\* dp1_inv * px is numpy's elementwise product of an N x N and an N x D array
\* (line 175), which raises when the two shapes do not broadcast.
NonRigidCPD_update(source, target, estep_res, sigma2_p, g, lmd) ==
    Let(Diag([n \in 1..Len(estep_res.p1) |-> FDiv(One, estep_res.p1[n])]),
        LAMBDA dp1_inv :
    IF ~Broadcastable(dp1_inv, estep_res.px)
    THEN [err |-> "ValueError", w |-> <<>>, sigma2 |-> 0] ELSE
    Let(Solve(MatAdd(g, MatScale(FMul(lmd, sigma2_p), dp1_inv)),
              BSub(BMul(dp1_inv, estep_res.px), source)), LAMBDA sol :
    IF sol.err # "" THEN [err |-> sol.err, w |-> <<>>, sigma2 |-> 0] ELSE
    Let(sol.x, LAMBDA w :
    Let(MatAdd(source, MatMul(g, w)), LAMBDA t :
    Let(WeightedTrace(target, estep_res.pt1), LAMBDA tr_xp1x :
    Let(Trace(MatMul(Transpose(estep_res.px), t)), LAMBDA tr_pxtt :
    Let(WeightedTrace(t, estep_res.p1), LAMBDA tr_ttp1t :
    [err |-> "", w |-> w,
     sigma2 |-> FDiv(FAdd(FSub(tr_xp1x, FMul(Two, tr_pxtt)), tr_ttp1t),
                     FMul(estep_res.n_p, FromInt(NCols(source))))])))))))

\* faulty variant: the non-rigid step reports a likelihood objective like the others
NonRigidCPD_maximization_step_likelihood(source, target, estep_res, sigma2_p, g, lmd) ==
    Let(NonRigidCPD_update(source, target, estep_res, sigma2_p, g, lmd), LAMBDA r :
    IF r.err # "" THEN [err |-> r.err, res |-> NoMstepResult]
    ELSE [err |-> "",
          res |-> MstepResult(NonRigidTransformation(g, r.w, 2), r.sigma2,
                              Objective(0, r.sigma2, NCols(source), estep_res.n_p))])

\* NonRigidCPD._maximization_step, line 181: [err, res]
NonRigidCPD_maximization_step(source, target, estep_res, sigma2_p, g, lmd) ==
    Let(NonRigidCPD_update(source, target, estep_res, sigma2_p, g, lmd), LAMBDA r :
    IF r.err # "" THEN [err |-> r.err, res |-> NoMstepResult]
    ELSE [err |-> "",
          res |-> MstepResult(NonRigidTransformation(g, r.w, 2), r.sigma2, r.sigma2)])

\* RigidCPD._initialize, AffineCPD._initialize, NonRigidCPD._initialize:
\* [err, res].  self._source.shape[1] needs a second axis.
InitialObjective(self, target, sigma2) ==
    FAdd(One, FMul(FMul(FromInt(Len(target.pts) * NCols(self._source.pts)), Half),
                   FLog(sigma2)))

RigidCPD_initialize(self, target) ==
    IF self._source.ndim < 2 THEN [err |-> "IndexError", res |-> NoMstepResult]
    ELSE Let(NCols(self._source.pts), LAMBDA ndim :
         Let(msn_all_combination(self._source, target), LAMBDA sigma2 :
         [err |-> "",
          res |-> MstepResult(RigidTransformation(Identity(ndim), Zeros(ndim), One),
                              sigma2, InitialObjective(self, target, sigma2))]))

AffineCPD_initialize(self, target) ==
    IF self._source.ndim < 2 THEN [err |-> "IndexError", res |-> NoMstepResult]
    ELSE Let(NCols(self._source.pts), LAMBDA ndim :
         Let(msn_all_combination(self._source, target), LAMBDA sigma2 :
         [err |-> "",
          res |-> MstepResult(AffineTransformation(Identity(ndim), Zeros(ndim)),
                              sigma2, InitialObjective(self, target, sigma2))]))

NonRigidCPD_initialize(self, target) ==
    IF self._source.ndim < 2 THEN [err |-> "IndexError", res |-> NoMstepResult]
    ELSE Let(msn_all_combination(self._source, target), LAMBDA sigma2 :
         [err |-> "",
          res |-> MstepResult(
                      NonRigidTransformation(
                          self._g, [n \in 1..Len(self._source.pts) |-> <<0>>], 1),
                      sigma2, InitialObjective(self, target, sigma2))])

\* self._initialize(target), by the registrar's class
initialize(self, target) ==
    IF self.cls = "RigidCPD" THEN RigidCPD_initialize(self, target)
    ELSE IF self.cls = "AffineCPD" THEN AffineCPD_initialize(self, target)
    ELSE NonRigidCPD_initialize(self, target)

\* CoherentPointDrift.maximization_step and NonRigidCPD.maximization_step
maximization_step(self, target, estep_res, sigma2_p) ==
    IF self.cls = "RigidCPD"
    THEN RigidCPD_maximization_step(self._source.pts, target.pts, estep_res, sigma2_p)
    ELSE IF self.cls = "AffineCPD"
    THEN AffineCPD_maximization_step(self._source.pts, target.pts, estep_res, sigma2_p)
    ELSE NonRigidCPD_maximization_step(self._source.pts, target.pts, estep_res,
                                       sigma2_p, self._g, self._lmd)

\* the registrar objects
NoCpd ==
    [cls |-> "none", _source |-> NoArray, _tf_type |-> "None",
     _beta |-> 0, _lmd |-> 0, _g |-> <<>>]
RigidCPD(source) ==
    [cls |-> "RigidCPD", _source |-> source, _tf_type |-> "RigidTransformation",
     _beta |-> 0, _lmd |-> 0, _g |-> <<>>]
AffineCPD(source) ==
    [cls |-> "AffineCPD", _source |-> source, _tf_type |-> "AffineTransformation",
     _beta |-> 0, _lmd |-> 0, _g |-> <<>>]
NonRigidCPD(source, beta, lmd) ==
    [cls |-> "NonRigidCPD", _source |-> source, _tf_type |-> "NonRigidTransformation",
     _beta |-> beta, _lmd |-> lmd,
     _g |-> IF source = NoArray THEN <<>> ELSE gaussian_kernel(source, beta)]

\* NonRigidCPD.set_source
NonRigidCPD_set_source(self, source) ==
    [self EXCEPT !._source = source, !._g = gaussian_kernel(source, self._beta)]

(***************************************************************************)
(* The inputs explored.                                                    *)
(***************************************************************************)
MaxIter == 3

P1 == <<<<0>>>>
P2 == <<<<0>>, <<One>>>>
P3 == <<<<Half>>, <<Two + Half>>>>
P4 == <<<<0>>, <<3 * One>>>>
Q1 == <<<<0, 0>>>>
Q2 == <<<<One, 0>>>>
Q3 == <<<<0, 0>>, <<One, 0>>, <<0, One>>>>

\* arrays with one axis and with three axes
Flat(pts) == [ndim |-> 1, pts |-> pts]
Cube(pts) == [ndim |-> 3, pts |-> pts]

Sources1 == {Array2(P1), Array2(P2), Array2(P3), Flat(P2), Cube(P2)}
Targets1 == {Array2(P1), Array2(P2), Array2(P3), Array2(P4), Flat(P3), Cube(P3)}
Targets2 == {Array2(Q1), Array2(Q2), Array2(Q3)}

\* (tf_type_name, source, target): point sets of one dimensionality D; the
\* rigid and affine steps are modelled for D = 1, the non-rigid one for N = 1
\* and for the N, D where line 175 cannot broadcast
Problems ==
    ({"rigid", "affine"} \X Sources1 \X Targets1)
    \cup ({"nonrigid"} \X {Array2(P1), Flat(P2)} \X Targets1)
    \cup ({"nonrigid"} \X {Array2(Q1), Array2(Q3)} \X Targets2)
    \cup ({"similarity", ""} \X {Array2(P2)} \X {Array2(P3)})

Tols == {1, 7, 10, Half, One}
Ws == {0, One \div 10}
DefaultBeta == Two
DefaultLmd == Two

Calls ==
    {[tf_type_name |-> p[1], source |-> p[2], target |-> p[3],
      w |-> w, max_iteration |-> m, tol |-> tol] :
        p \in Problems, w \in Ws, m \in 0..MaxIter, tol \in Tols}

(***************************************************************************)
(* State.  pc is the driver's position; log lists the steps run so far.    *)
(***************************************************************************)
VARIABLES cpd, call, pc, res, q, i, t_source, estep_res, err, hist, log, svd

vars == <<cpd, call, pc, res, q, i, t_source, estep_res, err, hist, log, svd>>

NoSvd == [u |-> <<>>, vh |-> <<>>]

Init ==
    /\ call \in Calls
    /\ cpd = NoCpd
    /\ pc = "registration_cpd"
    /\ res = NoMstepResult
    /\ q = 0
    /\ i = 0
    /\ t_source = NoArray
    /\ estep_res = NoEstepResult
    /\ err = ""
    /\ hist = <<>>
    /\ log = <<>>
    /\ svd = NoSvd

Fail(e) == pc' = "FAILED" /\ err' = e

\* faulty variant: an unrecognized name falls back to the default, 'rigid'
registration_cpd_default_rigid ==
    /\ pc = "registration_cpd"
    /\ IF call.tf_type_name = "affine"
       THEN cpd' = AffineCPD(call.source) /\ log' = Append(log, "AffineCPD")
       ELSE IF call.tf_type_name = "nonrigid"
       THEN cpd' = NonRigidCPD(call.source, DefaultBeta, DefaultLmd)
            /\ log' = Append(log, "NonRigidCPD")
       ELSE cpd' = RigidCPD(call.source) /\ log' = Append(log, "RigidCPD")
    /\ pc' = "registration"
    /\ UNCHANGED <<call, res, q, i, t_source, estep_res, err, hist, svd>>

\* registration_cpd, lines 186-193: the registrar for the name, or ValueError
registration_cpd ==
    /\ pc = "registration_cpd"
    /\ IF call.tf_type_name = "rigid"
       THEN cpd' = RigidCPD(call.source) /\ pc' = "registration" /\ err' = err
            /\ log' = Append(log, "RigidCPD")
       ELSE IF call.tf_type_name = "affine"
       THEN cpd' = AffineCPD(call.source) /\ pc' = "registration" /\ err' = err
            /\ log' = Append(log, "AffineCPD")
       ELSE IF call.tf_type_name = "nonrigid"
       THEN cpd' = NonRigidCPD(call.source, DefaultBeta, DefaultLmd)
            /\ pc' = "registration" /\ err' = err
            /\ log' = Append(log, "NonRigidCPD")
       ELSE cpd' = cpd /\ Fail("ValueError") /\ log' = log
    /\ UNCHANGED <<call, res, q, i, t_source, estep_res, hist, svd>>

\* faulty variant: the loop body runs once before the budget is looked at
registration_begin_do_while ==
    /\ pc = "registration"
    /\ IF cpd._tf_type = "None"
       THEN Fail("AssertionError") /\ UNCHANGED <<res, q, hist, log, i>>
       ELSE \E r \in {initialize(cpd, call.target)} :
               IF r.err # ""
               THEN Fail(r.err) /\ UNCHANGED <<res, q, hist, i>>
                    /\ log' = Append(log, "_initialize")
               ELSE /\ res' = r.res
                    /\ q' = r.res.q
                    /\ hist' = <<r.res>>
                    /\ log' = Append(log, "_initialize")
                    /\ i' = 1
                    /\ pc' = "transform"
                    /\ err' = err
    /\ UNCHANGED <<cpd, call, t_source, estep_res, svd>>

\* registration, lines 65-67
registration_begin ==
    /\ pc = "registration"
    /\ IF cpd._tf_type = "None"
       THEN Fail("AssertionError") /\ UNCHANGED <<res, q, hist, log>>
       ELSE \E r \in {initialize(cpd, call.target)} :
               IF r.err # ""
               THEN Fail(r.err) /\ UNCHANGED <<res, q, hist>>
                    /\ log' = Append(log, "_initialize")
               ELSE /\ res' = r.res
                    /\ q' = r.res.q
                    /\ hist' = <<r.res>>
                    /\ log' = Append(log, "_initialize")
                    /\ pc' = "for"
                    /\ err' = err
    /\ UNCHANGED <<cpd, call, i, t_source, estep_res, svd>>

\* faulty variant: range(max_iteration + 1)
for_next_one_more ==
    /\ pc = "for"
    /\ IF i <= call.max_iteration
       THEN i' = i + 1 /\ pc' = "transform"
       ELSE i' = i /\ pc' = "EXHAUSTED"
    /\ UNCHANGED <<cpd, call, res, q, t_source, estep_res, err, hist, log, svd>>

\* line 68: for _ in range(max_iteration); line 75 when the range is used up
for_next ==
    /\ pc = "for"
    /\ IF i < call.max_iteration
       THEN i' = i + 1 /\ pc' = "transform"
       ELSE i' = i /\ pc' = "EXHAUSTED"
    /\ UNCHANGED <<cpd, call, res, q, t_source, estep_res, err, hist, log, svd>>

\* faulty variant: the previous iteration's transformed points are transformed again
transform_source_cumulative ==
    /\ pc = "transform"
    /\ t_source' = Transform(res.transformation,
                             IF t_source = NoArray THEN cpd._source ELSE t_source)
    /\ log' = Append(log, "transform")
    /\ pc' = "expectation_step"
    /\ UNCHANGED <<cpd, call, res, q, i, estep_res, err, hist, svd>>

\* line 69
transform_source ==
    /\ pc = "transform"
    /\ t_source' = Transform(res.transformation, cpd._source)
    /\ log' = Append(log, "transform")
    /\ pc' = "expectation_step"
    /\ UNCHANGED <<cpd, call, res, q, i, estep_res, err, hist, svd>>

\* line 70, with the assertion of line 41
expectation ==
    /\ pc = "expectation_step"
    /\ log' = Append(log, "expectation_step")
    /\ IF t_source.ndim = 2 /\ call.target.ndim = 2
       THEN /\ estep_res' = expectation_step(t_source.pts, call.target.pts,
                                             res.sigma2, call.w)
            /\ pc' = "maximization_step"
            /\ err' = err
       ELSE Fail("AssertionError") /\ estep_res' = estep_res
    /\ UNCHANGED <<cpd, call, res, q, i, t_source, hist, svd>>

\* line 71
maximization ==
    /\ pc = "maximization_step"
    /\ log' = Append(log, "maximization_step")
    /\ \E r \in {maximization_step(cpd, call.target, estep_res, res.sigma2)} :
          IF r.err # ""
          THEN Fail(r.err) /\ UNCHANGED <<res, hist>>
          ELSE res' = r.res /\ hist' = Append(hist, r.res) /\ pc' = "test"
               /\ err' = err
    /\ UNCHANGED <<cpd, call, q, i, t_source, estep_res, svd>>

\* faulty variant: line 74 (q = res.q) is missing
convergence_test_stale_q ==
    /\ pc = "test"
    /\ IF FLt(FAbs(FSub(res.q, q)), call.tol)
       THEN pc' = "CONVERGED"
       ELSE pc' = "for"
    /\ UNCHANGED <<cpd, call, res, q, i, t_source, estep_res, err, hist, log, svd>>

\* lines 72-75
convergence_test ==
    /\ pc = "test"
    /\ IF FLt(FAbs(FSub(res.q, q)), call.tol)
       THEN pc' = "CONVERGED" /\ q' = q
       ELSE pc' = "for" /\ q' = res.q
    /\ UNCHANGED <<cpd, call, res, i, t_source, estep_res, err, hist, log, svd>>

Next ==
    \/ registration_cpd
    \/ registration_begin
    \/ for_next
    \/ transform_source
    \/ expectation
    \/ maximization
    \/ convergence_test

Spec == Init /\ [][Next]_vars

Terminated == pc \in {"CONVERGED", "EXHAUSTED", "FAILED"}

\* the for loop runs to its end: the scheduler is the Python interpreter
LiveSpec == Spec /\ WF_vars(Next)

(***************************************************************************)
(* The rotation update of RigidCPD._maximization_step (lines 97-100) for   *)
(* D = 2 and D = 3, the SVD factors u and vh ranging over the orthogonal   *)
(* matrices with entries in {-1, 0, 1}.                                    *)
(***************************************************************************)
R3 == <<<<0, 0, 0>>, <<One, 0, 0>>, <<0, One, One>>>>

NoCall ==
    [tf_type_name |-> "", source |-> NoArray, target |-> NoArray,
     w |-> 0, max_iteration |-> 0, tol |-> 0]

InjectiveMaps(n) ==
    {p \in [1..n -> 1..n] : \A a, b \in 1..n : p[a] = p[b] => a = b}

\* the orthogonal n x n matrices with entries in {-1, 0, 1}
Orthogonal(n) ==
    {[r \in 1..n |-> [c \in 1..n |-> IF p[r] = c THEN sg[r] * One ELSE 0]] :
        p \in InjectiveMaps(n), sg \in [1..n -> {-1, 1}]}

InitRot ==
    /\ call \in {[NoCall EXCEPT !.tf_type_name = "rigid",
                                !.source = Array2(x), !.target = Array2(x)] :
                    x \in {Q3, R3}}
    /\ cpd = RigidCPD(call.source)
    /\ res = RigidCPD_initialize(cpd, call.target).res
    /\ pc = "svd"
    /\ q = 0
    /\ i = 0
    /\ t_source = NoArray
    /\ estep_res = NoEstepResult
    /\ err = ""
    /\ hist = <<>>
    /\ log = <<>>
    /\ svd = NoSvd

\* line 97: u, _, vh = np.linalg.svd(a, full_matrices=True)
svd_factors ==
    /\ pc = "svd"
    /\ \E u \in Orthogonal(NCols(cpd._source.pts)),
          vh \in Orthogonal(NCols(cpd._source.pts)) :
            svd' = [u |-> u, vh |-> vh]
    /\ pc' = "rot"
    /\ UNCHANGED <<cpd, call, res, q, i, t_source, estep_res, err, hist, log>>

\* lines 98-100 and the rotation of the returned transformation
rigid_rotation ==
    /\ pc = "rot"
    /\ res' = [res EXCEPT !.transformation.mat = RigidRotation(svd.u, svd.vh)]
    /\ svd' = svd
    /\ log' = <<"maximization_step">>
    /\ pc' = "test"
    /\ UNCHANGED <<cpd, call, q, i, t_source, estep_res, err, hist>>

NextRot == svd_factors \/ rigid_rotation

SpecRot == InitRot /\ [][NextRot]_vars

(***************************************************************************)
(* The registrar objects used directly: a constructor call, then           *)
(* set_source calls.                                                       *)
(***************************************************************************)
MaxSetSource == 2

ApiSources ==
    {Array2(P1), Array2(P2), Array2(P3), Array2(P4), Array2(Q1), Array2(Q2),
     Array2(Q3), Array2(R3)}
Betas == {One, Two, 3 * One}
Lmds == {One, Two}

\* CoherentPointDrift.set_source
CoherentPointDrift_set_source(self, source) == [self EXCEPT !._source = source]

\* faulty variant: NonRigidCPD does not override set_source
set_source_not_overridden(self, source) == CoherentPointDrift_set_source(self, source)

\* self.set_source(source), by the registrar's class
set_source(self, source) ==
    IF self.cls = "NonRigidCPD" THEN NonRigidCPD_set_source(self, source)
    ELSE CoherentPointDrift_set_source(self, source)

InitApi ==
    /\ cpd = NoCpd
    /\ call = NoCall
    /\ pc = "api"
    /\ res = NoMstepResult
    /\ q = 0
    /\ i = 0
    /\ t_source = NoArray
    /\ estep_res = NoEstepResult
    /\ err = ""
    /\ hist = <<>>
    /\ log = <<>>
    /\ svd = NoSvd

\* RigidCPD(source=None), AffineCPD(source=None),
\* NonRigidCPD(source=None, beta=2.0, lmd=2.0)
new_registrar ==
    /\ cpd = NoCpd
    /\ \E source \in ApiSources \cup {NoArray} :
          /\ \/ cpd' = RigidCPD(source)
             \/ cpd' = AffineCPD(source)
             \/ \E beta \in Betas, lmd \in Lmds : cpd' = NonRigidCPD(source, beta, lmd)
          /\ log' = <<IF source = NoArray THEN "new()" ELSE "new(source)">>
    /\ UNCHANGED <<call, pc, res, q, i, t_source, estep_res, err, hist, svd>>

call_set_source ==
    /\ cpd # NoCpd
    /\ Len(log) <= MaxSetSource
    /\ \E source \in ApiSources : cpd' = set_source(cpd, source)
    /\ log' = Append(log, "set_source")
    /\ UNCHANGED <<call, pc, res, q, i, t_source, estep_res, err, hist, svd>>

NextApi == new_registrar \/ call_set_source

SpecApi == InitApi /\ [][NextApi]_vars
(***************************************************************************)
(* Properties of registration and registration_cpd.                        *)
(* hist[1] is the initializer's result and hist[k + 1] the result of the   *)
(* k-th maximization step; log lists the calls made so far.                *)
(***************************************************************************)
Count(name) == Len(SelectSeq(log, LAMBDA x : x = name))

Returned == pc \in {"CONVERGED", "EXHAUSTED"}

KnownName == call.tf_type_name \in {"rigid", "affine", "nonrigid"}

\* the objective after iteration k (k = 0: the initializer's)
ObjectiveAt(k) == hist[k + 1].q

\* the test of line 72 as iteration k evaluates it
Conv(k) == FLt(FAbs(FSub(ObjectiveAt(k), ObjectiveAt(k - 1))), call.tol)

\* iteration k finished its test and the loop went on
Passed(k) ==
    /\ k \in 1..(Len(hist) - 1)
    /\ k < i \/ pc \in {"for", "EXHAUSTED"}

\* never more than max_iteration iterations, nor steps of any kind
WithinBudget ==
    /\ i <= call.max_iteration
    /\ Count("transform") <= call.max_iteration
    /\ Count("expectation_step") <= call.max_iteration
    /\ Count("maximization_step") <= call.max_iteration
    /\ Len(hist) <= call.max_iteration + 1

\* C1 as stated: for every input registration performs at most max_iteration
\* iterations and always reaches CONVERGED or EXHAUSTED.
C1_AlwaysConvergedOrExhausted_AsStated ==
    /\ []WithinBudget
    /\ <>Returned

\* C1: every run of registration ends, and it ends after at most
\* max_iteration iterations: the iteration counter and the numbers of
\* transform, expectation and maximization steps never exceed max_iteration;
\* the run ends converged at an iteration 1..max_iteration, or exhausted with
\* exactly max_iteration iterations done, or with the exception that
\* registration_cpd, the initializer, the expectation step or the
\* maximization step raised.
C1_TerminatesWithinBudget ==
    /\ []WithinBudget
    /\ [](pc = "CONVERGED" => i \in 1..call.max_iteration)
    /\ [](pc = "EXHAUSTED" =>
              i = call.max_iteration /\ Count("maximization_step") = i)
    /\ [](pc = "FAILED" <=> err # "")
    /\ <>Terminated

\* C1 witness: a run that used its whole budget of several iterations
C1_Witness ==
    /\ pc = "EXHAUSTED"
    /\ call.max_iteration = MaxIter
    /\ i = MaxIter
    /\ Count("expectation_step") = MaxIter
    /\ Count("maximization_step") = MaxIter

\* C2: the loop exits at the first iteration k whose objective differs from
\* the previous iteration's objective (the initializer's for k = 1) by less
\* than tol, and returns that iteration's result; every earlier iteration
\* failed the test; when no iteration passes it, the result of iteration
\* max_iteration is returned.
C2_ExitsAtFirstConvergedIteration ==
    /\ \A k \in 1..(Len(hist) - 1) : Passed(k) => ~Conv(k)
    /\ pc = "CONVERGED" =>
          /\ i = Len(hist) - 1
          /\ i >= 1
          /\ Conv(i)
          /\ \A k \in 1..(i - 1) : ~Conv(k)
          /\ res = hist[i + 1]
          /\ Count("expectation_step") = i
          /\ Count("maximization_step") = i
    /\ pc = "EXHAUSTED" =>
          /\ Len(hist) = call.max_iteration + 1
          /\ \A k \in 1..call.max_iteration : ~Conv(k)
          /\ res = hist[call.max_iteration + 1]
    /\ pc \in {"for", "transform", "expectation_step", "maximization_step"}
          /\ Len(hist) >= 1
          => q = hist[Len(hist)].q

\* C2 witness: the test failed at iteration 1 and passed at iteration 2 of 3
C2_Witness ==
    /\ pc = "CONVERGED"
    /\ call.max_iteration = 3
    /\ i = 2
    /\ ~Conv(1)
    /\ Conv(2)
    /\ res = hist[3]

\* the initializer's transformation leaves every source point where it is
IsIdentityTransformation(tr) ==
    \/ /\ tr.kind = "rigid"
       /\ tr.mat = Identity(NCols(call.source.pts))
       /\ tr.t = Zeros(NCols(call.source.pts))
       /\ tr.scale = One
    \/ /\ tr.kind = "affine"
       /\ tr.mat = Identity(NCols(call.source.pts))
       /\ tr.t = Zeros(NCols(call.source.pts))
    \/ /\ tr.kind = "nonrigid"
       /\ tr.w = [n \in 1..NRows(call.source.pts) |-> <<0>>]
       /\ tr.waxes = 1

\* C3: with max_iteration = 0 registration returns the initializer's result,
\* an identity-valued transformation, without any transform, expectation or
\* maximization step; with max_iteration = 1 it returns the result of exactly
\* one expectation step followed by one maximization step.
C3_ZeroAndOneIteration ==
    /\ call.max_iteration = 0 =>
          /\ pc # "CONVERGED"
          /\ Count("transform") = 0
          /\ Count("expectation_step") = 0
          /\ Count("maximization_step") = 0
          /\ pc = "EXHAUSTED" =>
                /\ res = initialize(cpd, call.target).res
                /\ hist = <<res>>
                /\ IsIdentityTransformation(res.transformation)
                /\ log = <<cpd.cls, "_initialize">>
    /\ call.max_iteration = 1 /\ Returned =>
          /\ log = <<cpd.cls, "_initialize", "transform",
                     "expectation_step", "maximization_step">>
          /\ Len(hist) = 2
          /\ res = hist[2]
          /\ res = maximization_step(cpd, call.target, estep_res,
                                     hist[1].sigma2).res
          /\ estep_res = expectation_step(
                             Transform(hist[1].transformation, call.source).pts,
                             call.target.pts, hist[1].sigma2, call.w)

\* C3 witness: max_iteration = 1, the one iteration did not pass the test and
\* its result is returned
C3_Witness ==
    /\ call.max_iteration = 1
    /\ pc = "EXHAUSTED"
    /\ Len(hist) = 2
    /\ ~Conv(1)
    /\ res # hist[1]

\* C4: registration_cpd with a name other than rigid, affine and nonrigid
\* fails with ValueError and constructs no registrar and runs nothing; with a
\* recognized name it constructs the registrar of the matching class over the
\* given source and runs its registration.
C4_DispatchByName ==
    pc # "registration_cpd" =>
        /\ ~KnownName =>
              /\ pc = "FAILED"
              /\ err = "ValueError"
              /\ cpd = NoCpd
              /\ log = <<>>
              /\ hist = <<>>
        /\ KnownName =>
              /\ cpd.cls = CASE call.tf_type_name = "rigid" -> "RigidCPD"
                             [] call.tf_type_name = "affine" -> "AffineCPD"
                             [] call.tf_type_name = "nonrigid" -> "NonRigidCPD"
              /\ cpd._source = call.source
              /\ log[1] = cpd.cls
              /\ Count("RigidCPD") + Count("AffineCPD") + Count("NonRigidCPD") = 1
              /\ pc # "registration" => Len(log) >= 2 /\ log[2] = "_initialize"

\* C4 witness: an unrecognized name has been rejected
C4_Witness ==
    /\ ~KnownName
    /\ pc = "FAILED"
    /\ err = "ValueError"

\* an argument that is not a two-axis (points x dimensions) array
IllShaped == call.source.ndim # 2 \/ call.target.ndim # 2

\* C5: with an ill-shaped source or target, registration fails before the
\* initializer's result is used, whatever max_iteration is (0 included): it
\* never returns a result and never transforms the source.
C5_FailsFastOnIllShapedInput ==
    KnownName /\ IllShaped =>
        /\ ~Returned
        /\ Count("transform") = 0

\* C6: the variance of every estimate, the initializer's included, is
\* strictly positive.
C6_VarianceStrictlyPositive ==
    \A k \in 1..Len(hist) : FLt(0, hist[k].sigma2)

\* orthonormal with determinant +1
IsRotation(m) ==
    /\ MatMul(m, Transpose(m)) = Identity(Len(m))
    /\ MatMul(Transpose(m), m) = Identity(Len(m))
    /\ Det(m) = One

\* C7: the rotation of every rigid estimate is orthonormal with determinant
\* +1, also when the product of the SVD factors is a reflection.
C7_RotationIsProper ==
    /\ res.transformation.kind = "rigid"
    /\ IsRotation(res.transformation.mat)

\* C7 witness: a rotation computed from factors whose product is a reflection
C7_Witness ==
    /\ pc = "test"
    /\ log = <<"maximization_step">>
    /\ Det(MatMul(svd.u, svd.vh)) = -One
    /\ res.transformation.mat = RigidRotation(svd.u, svd.vh)
    /\ res.transformation.mat # MatMul(svd.u, svd.vh)

IsNonRigid == cpd.cls = "NonRigidCPD"

\* the variance after iteration k (k = 0: the initializer's)
VarianceAt(k) == hist[k + 1].sigma2

\* the variance changed by less than tol between iterations k - 1 and k
VarConv(k) == FLt(FAbs(FSub(VarianceAt(k), VarianceAt(k - 1))), call.tol)

\* the first test compares the variance with the initializer's objective
FirstConv == FLt(FAbs(FSub(VarianceAt(1), ObjectiveAt(0))), call.tol)

\* C8 as stated: the non-rigid objective is the variance, and the loop exits
\* exactly when the variance changed by less than tol between consecutive
\* iterations, at every iteration k >= 1, the first one included.
C8_ExitsOnVarianceChange_AsStated ==
    IsNonRigid =>
        /\ \A k \in 1..(Len(hist) - 1) : ObjectiveAt(k) = VarianceAt(k)
        /\ \A k \in 1..(Len(hist) - 1) : Passed(k) => ~VarConv(k)
        /\ pc = "CONVERGED" => VarConv(i)

\* C8: every non-rigid maximization step returns the variance as its
\* objective; at every iteration k >= 2 the loop exits exactly when the
\* variance changed by less than tol since iteration k - 1; at iteration 1 it
\* exits exactly when the variance differs by less than tol from the
\* initializer's objective 1 + M * D / 2 * log(sigma2_0), which is not the
\* initial variance.
C8_ExitsOnVarianceChange ==
    IsNonRigid =>
        /\ \A k \in 1..(Len(hist) - 1) : ObjectiveAt(k) = VarianceAt(k)
        /\ Len(hist) >= 1 =>
              ObjectiveAt(0) = InitialObjective(cpd, call.target, VarianceAt(0))
        /\ \A k \in 2..(Len(hist) - 1) : Passed(k) => ~VarConv(k)
        /\ Passed(1) => ~FirstConv
        /\ pc = "CONVERGED" /\ i >= 2 => VarConv(i)
        /\ pc = "CONVERGED" /\ i = 1 => FirstConv

\* C8 witness: a non-rigid run that went past iteration 1 although the
\* variance had changed by less than tol, and exited at a later iteration
\* when it changed by less than tol again
C8_Witness ==
    /\ IsNonRigid
    /\ pc = "CONVERGED"
    /\ i >= 2
    /\ VarConv(i)
    /\ VarConv(1)
    /\ ~FirstConv

\* the estimate the points of the current iteration were transformed with
EstimateBefore(k) == hist[k].transformation

\* C9: a run changes nothing of the registrar or of its arguments: source,
\* kernel matrix, beta, lambda, target, w and tol stay what they were; the
\* transformed points of every iteration are the current estimate applied to
\* the original source; every non-rigid estimate carries the kernel matrix of
\* the original source.
C9_RunChangesOnlyTheEstimate ==
    /\ [][cpd # NoCpd => cpd' = cpd]_vars
    /\ [][call' = call]_vars
    /\ [](cpd # NoCpd => cpd._source = call.source)
    /\ [](pc \in {"expectation_step", "maximization_step", "test"} =>
              t_source = Transform(EstimateBefore(i), call.source))
    /\ [](IsNonRigid =>
              \A k \in 1..Len(hist) :
                  hist[k].transformation.mat
                      = gaussian_kernel(call.source, DefaultBeta))

\* C9 witness: the third iteration transformed the original source, not the
\* points the second iteration had moved
C9_Witness ==
    /\ pc = "maximization_step"
    /\ i = 3
    /\ t_source = Transform(hist[3].transformation, call.source)
    /\ t_source # call.source
    /\ t_source # Transform(hist[3].transformation,
                            Transform(hist[2].transformation, call.source))

\* C10: the kernel matrix of a NonRigidCPD is the kernel of its current
\* source, after construction and after every set_source; it is None only
\* while no source was ever supplied; set_source leaves beta, lambda and the
\* transformation type unchanged.
C10_KernelFollowsSource ==
    /\ [](IsNonRigid =>
              /\ cpd._source # NoArray =>
                    cpd._g = gaussian_kernel(cpd._source, cpd._beta)
              /\ cpd._g = <<>> <=> log = <<"new()">>
              /\ cpd._source = NoArray <=> log = <<"new()">>)
    /\ [][IsNonRigid =>
              /\ cpd'._beta = cpd._beta
              /\ cpd'._lmd = cpd._lmd
              /\ cpd'._tf_type = cpd._tf_type
              /\ cpd'.cls = cpd.cls]_vars

\* C10 witness: a NonRigidCPD built without a source whose source was then
\* set twice, to different point sets
C10_Witness ==
    /\ IsNonRigid
    /\ log = <<"new()", "set_source", "set_source">>
    /\ cpd._g = gaussian_kernel(cpd._source, cpd._beta)
    /\ cpd._g # <<>>

====
